---- MODULE Spec2Model ----
(***************************************************************************)
(* Tephra: the descriptor allocator (tephra/src/descriptor.rs)             *)
(*                                                                         *)
(* LinearPoolAllocator is a bump allocator over native descriptor pools of *)
(* block_size handles each; Pool routes a Descriptor to the allocator of   *)
(* its ShaderViews signature and writes the descriptor through the         *)
(* context.                                                                *)
(*                                                                         *)
(* and the swapchain (tephra/src/backend/vulkan/swapchain.rs).             *)
(*                                                                         *)
(* The specifications share the variables; each leaves the variables of    *)
(* the others at their idle values:                                        *)
(*   SpecAllocator  one LinearPoolAllocator driven directly                *)
(*                  (create_descriptor, reset), calls counted;             *)
(*   SpecFrames     the same allocator over any number of frames;          *)
(*   Spec           a Pool (allocate, reset) over several signatures;      *)
(*   SpecSizes      DescriptorSizes::from_views on bounded view lists;     *)
(*   SpecNegotiate  the negotiation of create_swapchain on bounded         *)
(*                  surface reports;                                       *)
(*   SpecSwapchain  the life of a SwapchainData: creation, acquire,        *)
(*                  present, recreate, drop;                               *)
(*   SpecPresent    threads calling present() on one context.              *)
(***************************************************************************)
EXTENDS Integers, Sequences, FiniteSets, TLC

\* ------------------------------------------------------------------ bounds

\* create_descriptor() calls made on the directly driven allocator.
MaxCreate == 101

\* Pool::allocate calls made on the Pool.
MaxCalls == 52

\* How many of the first handles returned by create_descriptor() are remembered.
MaxIssued == 3

\* ------------------------------------------------------- program constants

\* LinearPoolAllocator::new: block_size: 50
block_size == 50

\* ------------------------------------------------------------------- types

Uniform == "Uniform"
Storage == "Storage"

DescriptorType == {Uniform, Storage}

ShaderView(binding, ty) == [binding |-> binding, ty |-> ty]

\* ShaderViews signatures used as keys: an ordered list of ShaderView.
SigNone == <<>>
SigA == <<ShaderView(0, Uniform)>>
SigB == <<ShaderView(0, Storage), ShaderView(1, Uniform)>>

Signatures == {SigA, SigB}

\* Buffer handles a descriptor may bind.
Buffers == {1, 2}

\* A Descriptor: a signature plus the bound resource.
Descriptors == [views : Signatures, data : Buffers]

NoHandle == 0

\* --------------------------------------------------------- DescriptorSizes

RECURSIVE fold_views(_, _)
fold_views(views, acc) ==
    IF views = <<>> THEN acc
    ELSE LET elem == Head(views)
             next == IF elem.ty = Uniform
                     THEN [acc EXCEPT !.buffer = @ + 1]
                     ELSE [acc EXCEPT !.storage = @ + 1]
         IN  fold_views(Tail(views), next)

\* Mutant: every view is counted as a buffer.
from_views_all_buffers(views) ==
    [buffer |-> Len(views), storage |-> 0, images |-> 0]

from_views(views) ==
    fold_views(views, [buffer |-> 0, storage |-> 0, images |-> 0])

\* ------------------------------------------------- the context (backend)

\* The context: the native pools it created (with the handles each minted),
\* the number of handles minted so far, the descriptor writes it received,
\* and the log of the calls observed during the current operation.
NewContext ==
    [pools |-> <<>>, minted |-> 0, writes |-> 0,
     last_write |-> [handle |-> NoHandle, data |-> 0], log |-> <<>>]

\* CreatePool::create_pool: one more native pool; returns its identity.
ctx_create_pool(c, alloc_size, views, sizes) ==
    [ctx  |-> [c EXCEPT
                 !.pools = Append(@, [alloc_size |-> alloc_size, sizes |-> sizes,
                                      handles |-> <<>>]),
                 !.log = Append(@, <<"create_pool", alloc_size, 0>>)],
     pool |-> Len(c.pools) + 1]

\* PoolApi::create_descriptor: mints `count` fresh handles from pool `p`.
pool_create_descriptor(c, p, count) ==
    LET handles == [i \in 1..count |-> c.minted + i]
    IN  [ctx |-> [c EXCEPT !.pools[p].handles = @ \o handles,
                           !.minted = @ + count,
                           !.log = Append(@, <<"mint", p, count>>)],
         handles |-> handles]

\* DescriptorApi::write
ctx_write(c, handle, data) ==
    [c EXCEPT !.writes = @ + 1,
              !.last_write = [handle |-> handle, data |-> data.data],
              !.log = Append(@, <<"write", handle, data.data>>)]

\* ------------------------------------------------------ LinearPoolAllocator

LinearPoolAllocator_new(views) ==
    [block_size |-> block_size,
     pools |-> <<>>,
     descriptors |-> <<>>,
     views |-> views,
     sizes |-> from_views(views),
     current_allocations |-> 0]

\* Mutant: the pool mints one handle less than a block.
allocate_additional_pool_short(a, c) ==
    LET made == ctx_create_pool(c, a.block_size, a.views, a.sizes)
        got  == pool_create_descriptor(made.ctx, made.pool, a.block_size - 1)
    IN  [alloc |-> [a EXCEPT !.descriptors = @ \o got.handles,
                             !.pools = Append(@, made.pool)],
         ctx   |-> got.ctx]

allocate_additional_pool(a, c) ==
    LET made == ctx_create_pool(c, a.block_size, a.views, a.sizes)
        got  == pool_create_descriptor(made.ctx, made.pool, a.block_size)
    IN  [alloc |-> [a EXCEPT !.descriptors = @ \o got.handles,
                             !.pools = Append(@, made.pool)],
         ctx   |-> got.ctx]

\* Mutant: the cursor is not advanced.
take_descriptor_no_bump(g) ==
    LET index == g.alloc.current_allocations
    IN  IF index < Len(g.alloc.descriptors)
        THEN [alloc  |-> g.alloc,
              ctx    |-> [g.ctx EXCEPT !.log =
                             Append(@, <<"take", g.alloc.descriptors[index + 1], index>>)],
              handle |-> g.alloc.descriptors[index + 1],
              index  |-> index,
              panic  |-> FALSE]
        ELSE [alloc |-> g.alloc, ctx |-> g.ctx, handle |-> NoHandle,
              index |-> index, panic |-> TRUE]

\* let handle = self.descriptors[self.current_allocations];
\* self.current_allocations += 1; handle
\* on the allocator and context `g` left by the growth check. The result
\* carries the allocator, the context, the handle returned, the index read and
\* whether the indexing panicked (index out of bounds).
take_descriptor(g) ==
    LET index == g.alloc.current_allocations
    IN  IF index < Len(g.alloc.descriptors)
        THEN [alloc  |-> [g.alloc EXCEPT !.current_allocations = @ + 1],
              ctx    |-> [g.ctx EXCEPT !.log =
                             Append(@, <<"take", g.alloc.descriptors[index + 1], index>>)],
              handle |-> g.alloc.descriptors[index + 1],
              index  |-> index,
              panic  |-> FALSE]
        ELSE [alloc  |-> g.alloc,
              ctx    |-> g.ctx,
              handle |-> NoHandle,
              index  |-> index,
              panic  |-> TRUE]

\* Mutant: the growth check uses > where the code uses >=.
create_descriptor_gt(a, c) ==
    LET allocator_index == a.current_allocations \div a.block_size
    IN  take_descriptor(IF allocator_index > Len(a.pools)
                        THEN allocate_additional_pool(a, c)
                        ELSE [alloc |-> a, ctx |-> c])

\* Mutant: the growth check looks one allocation ahead.
create_descriptor_early(a, c) ==
    LET allocator_index == (a.current_allocations + 1) \div a.block_size
    IN  take_descriptor(IF allocator_index >= Len(a.pools)
                        THEN allocate_additional_pool(a, c)
                        ELSE [alloc |-> a, ctx |-> c])

\* Mutant: the handle is read after the cursor was advanced.
create_descriptor_skip(a, c) ==
    LET allocator_index == a.current_allocations \div a.block_size
        g == IF allocator_index >= Len(a.pools)
             THEN allocate_additional_pool(a, c)
             ELSE [alloc |-> a, ctx |-> c]
        r == take_descriptor(g)
    IN  IF r.panic \/ r.index + 2 > Len(g.alloc.descriptors) THEN r
        ELSE [r EXCEPT !.handle = g.alloc.descriptors[r.index + 2]]

create_descriptor(a, c) ==
    LET allocator_index == a.current_allocations \div a.block_size
    IN  take_descriptor(IF allocator_index >= Len(a.pools)
                        THEN allocate_additional_pool(a, c)
                        ELSE [alloc |-> a, ctx |-> c])

\* Mutant: only the block in use is rewound.
reset_last_block(a) ==
    IF Len(a.pools) = 0 THEN a
    ELSE [a EXCEPT !.current_allocations = (Len(a.pools) - 1) * a.block_size]

\* for _pool in &mut self.pools { self.current_allocations = 0; }
RECURSIVE reset_loop(_, _)
reset_loop(a, i) ==
    IF i > Len(a.pools) THEN a
    ELSE reset_loop([a EXCEPT !.current_allocations = 0], i + 1)

reset(a) == reset_loop(a, 1)

\* --------------------------------------------------------------------- Pool

EmptyMap == [s \in {} |-> 0]

MapPut(m, k, v) == [s \in DOMAIN m \cup {k} |-> IF s = k THEN v ELSE m[s]]

Pool_new == EmptyMap

\* Mutant: the entry is overwritten by a new allocator on every lookup.
entry_or_insert_always(allocs, views) ==
    MapPut(allocs, views, LinearPoolAllocator_new(views))

\* entry(views).or_insert_with(LinearPoolAllocator::new)
entry_or_insert(allocs, views) ==
    IF views \in DOMAIN allocs THEN allocs
    ELSE MapPut(allocs, views, LinearPoolAllocator_new(views))

\* Mutant: every signature is served by the allocator just used.
Pool_allocate_shared(allocs, c, data) ==
    LET allocs1 == entry_or_insert(allocs, data.views)
        r == create_descriptor(allocs1[data.views], c)
    IN  [allocators |-> [s \in DOMAIN allocs1 |-> r.alloc],
         ctx |-> IF r.panic THEN r.ctx ELSE ctx_write(r.ctx, r.handle, data),
         handle |-> r.handle, index |-> r.index, panic |-> r.panic]

\* Mutant: the write is issued only when the allocator had to grow.
Pool_allocate_lazy_write(allocs, c, data) ==
    LET allocs1 == entry_or_insert(allocs, data.views)
        r == create_descriptor(allocs1[data.views], c)
    IN  [allocators |-> [allocs1 EXCEPT ![data.views] = r.alloc],
         ctx |-> IF r.panic \/ Len(r.ctx.pools) = Len(c.pools)
                 THEN r.ctx ELSE ctx_write(r.ctx, r.handle, data),
         handle |-> r.handle, index |-> r.index, panic |-> r.panic]

Pool_allocate(allocs, c, data) ==
    LET allocs1 == entry_or_insert(allocs, data.views)
        r == create_descriptor(allocs1[data.views], c)
    IN  IF r.panic
        THEN [allocators |-> [allocs1 EXCEPT ![data.views] = r.alloc],
              ctx |-> r.ctx, handle |-> NoHandle, index |-> r.index, panic |-> TRUE]
        ELSE [allocators |-> [allocs1 EXCEPT ![data.views] = r.alloc],
              ctx |-> ctx_write(r.ctx, r.handle, data),
              handle |-> r.handle, index |-> r.index, panic |-> FALSE]

\* Mutant: only the allocators that grew beyond one pool are reset.
Pool_reset_grown(allocs) ==
    [s \in DOMAIN allocs |->
        IF Len(allocs[s].pools) > 1 THEN reset(allocs[s]) ELSE allocs[s]]

Pool_reset(allocs) == [s \in DOMAIN allocs |-> reset(allocs[s])]

\* -------------------------------------------------------------------- state

VARIABLES
    ctx,            \* the context shared by the allocators
    lpa,            \* the directly driven LinearPoolAllocator
    allocators,     \* Pool.allocators: signature -> LinearPoolAllocator
    panicked,       \* an index out of bounds ended the program
    ret,            \* the last operation and what it returned
    n_create,       \* create_descriptor() calls made on lpa
    n_allocate,     \* Pool::allocate calls made
    was_reset,      \* a reset() has happened since construction
    reset_pools,    \* pools owned by lpa when it was last reset
    issued,         \* the first MaxIssued handles create_descriptor() returned
    frame_calls,    \* create_descriptor() calls made on lpa since its last reset
    seen,           \* the signatures passed to Pool::allocate so far
    frame_handles,  \* the handles Pool::allocate returned since the last Pool::reset
    frame_allocs,   \* Pool::allocate calls made since the last Pool::reset
    high_water,     \* the largest value lpa.current_allocations has reached
    max_frame       \* the most create_descriptor() calls made between two resets

VARIABLES
    sz_in,          \* from_views: the views given, and a reordering of them
    sz_out,         \* from_views: the sizes computed for both
    surface,        \* create_swapchain: what the surface reports
    info,           \* create_swapchain: the SwapchainCreateInfoKHR built from it
    vk,             \* the driver: presentation objects created and destroyed
    swapchain,      \* the SwapchainData the caller owns
    sw_ret,         \* the last swapchain operation and what it returned
    pc,             \* present(): where each thread is
    queue_lock,     \* present(): the holder of context.present_queue.inner
    in_flight,      \* present(): threads inside queue_present_khr
    n_present       \* present(): calls started

alloc_vars == <<ctx, lpa, allocators, panicked, ret, n_create, n_allocate,
                was_reset, reset_pools, issued, frame_calls, seen>>

pool_hist_vars == <<frame_handles, frame_allocs>>

frames_vars == <<high_water, max_frame>>

sizes_vars == <<sz_in, sz_out>>

negotiate_vars == <<surface, info>>

swap_vars == <<vk, swapchain, sw_ret>>

present_vars == <<pc, queue_lock, in_flight, n_present>>

\* The variables no descriptor operation touches.
other_vars == <<sizes_vars, negotiate_vars, swap_vars, present_vars>>

vars == <<alloc_vars, pool_hist_vars, frames_vars, other_vars>>

\* The values of the variables a specification does not use.
IdleHist == frame_handles = {} /\ frame_allocs = 0

IdleFrames == high_water = 0 /\ max_frame = 0

IdleSizes == sz_in = <<>> /\ sz_out = <<>>

IdleNegotiate == surface = <<>> /\ info = <<>>

IdleSwap == vk = <<>> /\ swapchain = <<>> /\ sw_ret = <<>>

IdlePresent == pc = <<>> /\ queue_lock = 0 /\ in_flight = {} /\ n_present = 0

NoRet ==
    [op |-> "none", sig |-> SigNone, data |-> 0, handle |-> NoHandle,
     index |-> 0, grew |-> 0]

InitDescriptorVars ==
    /\ ctx = NewContext
    /\ allocators = Pool_new
    /\ panicked = FALSE
    /\ ret = NoRet
    /\ n_create = 0
    /\ n_allocate = 0
    /\ was_reset = FALSE
    /\ reset_pools = 0
    /\ issued = <<>>
    /\ frame_calls = 0
    /\ seen = {}

InitCommon ==
    /\ InitDescriptorVars
    /\ IdleHist
    /\ IdleFrames
    /\ IdleSizes
    /\ IdleNegotiate
    /\ IdleSwap
    /\ IdlePresent

\* ------------------------------------------ SpecAllocator: one allocator

InitAllocator ==
    /\ InitCommon
    /\ \E views \in Signatures \cup {SigNone} : lpa = LinearPoolAllocator_new(views)

CreateDescriptor ==
    /\ ~panicked
    /\ n_create < MaxCreate
    /\ LET r == create_descriptor(lpa, [ctx EXCEPT !.log = <<>>])
       IN  /\ lpa' = r.alloc
           /\ ctx' = r.ctx
           /\ panicked' = r.panic
           /\ ret' = [op |-> "create_descriptor", sig |-> lpa.views, data |-> 0,
                      handle |-> r.handle, index |-> r.index,
                      grew |-> Len(r.ctx.pools) - Len(ctx.pools)]
           /\ issued' = IF ~r.panic /\ Len(issued) < MaxIssued
                        THEN Append(issued, r.handle) ELSE issued
    /\ n_create' = n_create + 1
    /\ frame_calls' = frame_calls + 1
    /\ UNCHANGED <<allocators, n_allocate, was_reset, reset_pools, seen>>
    /\ UNCHANGED <<pool_hist_vars, frames_vars, other_vars>>

Reset ==
    /\ ~panicked
    /\ lpa' = reset(lpa)
    /\ ctx' = [ctx EXCEPT !.log = <<>>]
    /\ ret' = [NoRet EXCEPT !.op = "reset", !.sig = lpa.views]
    /\ was_reset' = TRUE
    /\ reset_pools' = Len(lpa.pools)
    /\ frame_calls' = 0
    /\ UNCHANGED <<allocators, panicked, n_create, n_allocate, issued, seen>>
    /\ UNCHANGED <<pool_hist_vars, frames_vars, other_vars>>

NextAllocator == CreateDescriptor \/ Reset

SpecAllocator == InitAllocator /\ [][NextAllocator]_vars

\* ------------------------------------------------------------ Spec: a Pool

Init ==
    /\ InitCommon
    /\ lpa = LinearPoolAllocator_new(SigNone)

Allocate ==
    /\ ~panicked
    /\ n_allocate < MaxCalls
    /\ \E data \in Descriptors :
         LET r == Pool_allocate(allocators, [ctx EXCEPT !.log = <<>>], data)
         IN  /\ allocators' = r.allocators
             /\ ctx' = r.ctx
             /\ panicked' = r.panic
             /\ ret' = [op |-> "allocate", sig |-> data.views, data |-> data.data,
                        handle |-> r.handle, index |-> r.index,
                        grew |-> Len(r.ctx.pools) - Len(ctx.pools)]
             /\ seen' = seen \cup {data.views}
             /\ frame_handles' = IF r.panic THEN frame_handles
                                 ELSE frame_handles \cup {r.handle}
    /\ n_allocate' = n_allocate + 1
    /\ frame_allocs' = frame_allocs + 1
    /\ UNCHANGED <<lpa, n_create, was_reset, reset_pools, issued, frame_calls>>
    /\ UNCHANGED <<frames_vars, other_vars>>

PoolReset ==
    /\ ~panicked
    /\ allocators' = Pool_reset(allocators)
    /\ ctx' = [ctx EXCEPT !.log = <<>>]
    /\ ret' = [NoRet EXCEPT !.op = "pool_reset"]
    /\ was_reset' = TRUE
    /\ frame_handles' = {}
    /\ frame_allocs' = 0
    /\ UNCHANGED <<lpa, panicked, n_create, n_allocate, reset_pools, issued,
                   frame_calls, seen>>
    /\ UNCHANGED <<frames_vars, other_vars>>

Next == Allocate \/ PoolReset

Spec == Init /\ [][Next]_vars

\* ------------------------------------------------------------------ helpers

Ceil(n, d) == (n + d - 1) \div d

\* The handles the context minted for the pools of allocator `a`, pool by pool
\* in the order the allocator acquired them.
RECURSIVE minted_from(_, _)
minted_from(a, k) ==
    IF k > Len(a.pools) THEN <<>>
    ELSE ctx.pools[a.pools[k]].handles \o minted_from(a, k + 1)

MintedInOrder(a) == minted_from(a, 1)

\* ============================================ claims under SpecAllocator

\* C1: from a fresh allocator, after N create_descriptor() calls and no
\* reset(), pools.len() = ceil(N / block_size) and
\* descriptors.len() = pools.len() * block_size.
C1_GrowthAfterNCalls ==
    ~was_reset =>
        /\ Len(lpa.pools) = Ceil(n_create, block_size)
        /\ Len(lpa.descriptors) = Len(lpa.pools) * block_size

\* 101 calls without a reset: the third pool exists.
C1_Witness ==
    /\ ~was_reset
    /\ n_create = 2 * block_size + 1
    /\ Len(lpa.pools) = 3

\* C2: in every reachable state current_allocations <= descriptors.len() and
\* descriptors.len() = pools.len() * block_size.
C2_CursorWithinCache ==
    /\ lpa.current_allocations <= Len(lpa.descriptors)
    /\ Len(lpa.descriptors) = Len(lpa.pools) * lpa.block_size

\* The cursor sits at the very end of a two-pool cache, after a reset.
C2_Witness ==
    /\ was_reset
    /\ Len(lpa.pools) = 2
    /\ lpa.current_allocations = Len(lpa.descriptors)

\* C3 (as stated): for an allocator that owned a pool when it was reset, the
\* i-th create_descriptor() after the reset, i <= block_size, creates no pool
\* and returns the handle the i-th create_descriptor() call ever made returned.
C3_SameAsIthCallEver ==
    (/\ was_reset
     /\ reset_pools >= 1
     /\ ret.op = "create_descriptor"
     /\ frame_calls <= block_size)
    => /\ ret.grew = 0
       /\ frame_calls <= Len(issued) => ret.handle = issued[frame_calls]

\* C3 (amended): for an allocator that owned a pool when it was reset, the
\* i-th create_descriptor() after the reset, i <= block_size, creates no pool;
\* and the i-th call after any reset returns the i-th handle minted for the
\* allocator (descriptors[i-1]), whatever the calls before the reset were.
C3_ResetReusesMintedHandles ==
    (was_reset /\ ret.op = "create_descriptor")
    => /\ (reset_pools >= 1 /\ frame_calls <= block_size) => ret.grew = 0
       /\ frame_calls <= Len(MintedInOrder(lpa))
       /\ ret.handle = MintedInOrder(lpa)[frame_calls]

\* A reset after a single allocation, then a full block of allocations.
C3_Witness ==
    /\ was_reset
    /\ reset_pools = 1
    /\ ret.op = "create_descriptor"
    /\ frame_calls = block_size
    /\ n_create = block_size + 1
    /\ Len(lpa.pools) = 1

\* C5: create_descriptor() never indexes descriptors out of bounds, the index
\* it reads is backed by native pool index / block_size, whose handle at offset
\* index % block_size it returns, and a pool is created only when the index is
\* the first of a block, so every pool serves block_size consecutive indices.
C5_ReadsBackedIndex ==
    /\ ~panicked
    /\ ret.op = "create_descriptor" =>
         LET k == ret.index \div block_size
         IN  /\ ret.index < Len(lpa.descriptors)
             /\ k < Len(lpa.pools)
             /\ Len(ctx.pools[lpa.pools[k + 1]].handles) = block_size
             /\ ret.handle = ctx.pools[lpa.pools[k + 1]].handles[(ret.index % block_size) + 1]
             /\ ret.grew > 0 => (ret.index = k * block_size /\ k + 1 = Len(lpa.pools))

\* The last index of the first block is read while two pools exist.
C5_Witness ==
    /\ ret.op = "create_descriptor"
    /\ ret.index = block_size - 1
    /\ Len(lpa.pools) = 2
    /\ was_reset

\* C6: after reset() returns current_allocations = 0, also for an allocator
\* without pools, and reset() changes neither pools nor descriptors nor the
\* native pools of the context.
C6_ResetRewindsOnly ==
    /\ [](ret.op = "reset" => lpa.current_allocations = 0)
    /\ [][ret'.op = "reset" =>
            /\ lpa'.pools = lpa.pools
            /\ lpa'.descriptors = lpa.descriptors
            /\ ctx'.pools = ctx.pools
            /\ ctx'.minted = ctx.minted]_vars

\* reset() has just rewound an allocator that used two pools.
C6_Witness ==
    /\ ret.op = "reset"
    /\ Len(lpa.pools) = 2
    /\ n_create > block_size
    /\ lpa.current_allocations = 0

\* ===================================================== claims under Spec

\* The allocator of signature s before a step, a fresh one if the Pool has none.
AllocatorOf(allocs, s) ==
    IF s \in DOMAIN allocs THEN allocs[s] ELSE LinearPoolAllocator_new(s)

\* C4: Pool::allocate with a descriptor of signature A leaves the allocator of
\* every other signature B unchanged (cursor, pools, descriptors), and creates
\* none for B.
C4_SignatureIsolation ==
    [][\A A \in Signatures :
          (n_allocate' = n_allocate + 1 /\ ret'.sig = A) =>
              \A B \in Signatures \ {A} :
                  IF B \in DOMAIN allocators
                  THEN /\ B \in DOMAIN allocators'
                       /\ allocators'[B].current_allocations
                              = allocators[B].current_allocations
                       /\ allocators'[B].pools = allocators[B].pools
                       /\ allocators'[B].descriptors = allocators[B].descriptors
                  ELSE B \notin DOMAIN allocators']_vars

\* SigA has just grown by a pool while SigB holds live allocations.
C4_Witness ==
    /\ ret.op = "allocate"
    /\ ret.sig = SigA
    /\ ret.grew = 1
    /\ SigB \in DOMAIN allocators
    /\ allocators[SigB].current_allocations > 0
    /\ allocators[SigA].current_allocations > 1

\* C7: 51 allocations of one signature through a new Pool create exactly two
\* native pools for it, the second during the 51st allocation at
\* current_allocations = 50; in general a call creates a native pool iff
\* current_allocations = pools.len() * block_size before it, and then one.
C7_GrowthAtBoundary ==
    /\ [](\A s \in DOMAIN allocators :
            (~was_reset /\ allocators[s].current_allocations = block_size + 1) =>
                /\ Len(allocators[s].pools) = 2
                /\ (ret.op = "allocate" /\ ret.sig = s) =>
                       (ret.grew = 1 /\ ret.index = block_size))
    /\ [][\A s \in Signatures :
            LET pre == AllocatorOf(allocators, s)
                post == AllocatorOf(allocators', s)
                created == Len(post.pools) - Len(pre.pools)
            IN  IF n_allocate' = n_allocate + 1 /\ ret'.sig = s
                THEN /\ created =
                          (IF pre.current_allocations = Len(pre.pools) * block_size
                           THEN 1 ELSE 0)
                     /\ Len(ctx'.pools) - Len(ctx.pools) = created
                ELSE created = 0]_vars

\* The 51st allocation of SigB in a Pool that was never reset.
C7_Witness ==
    /\ ~was_reset
    /\ ret.op = "allocate"
    /\ ret.sig = SigB
    /\ allocators[SigB].current_allocations = block_size + 1
    /\ Len(allocators[SigB].pools) = 2

\* The number of "write" calls in a log.
RECURSIVE count_writes(_)
count_writes(log) ==
    IF log = <<>> THEN 0
    ELSE (IF Head(log)[1] = "write" THEN 1 ELSE 0) + count_writes(Tail(log))

\* C8: every Pool::allocate issues exactly one backend write, for the handle
\* it returns and with the descriptor's data, after the handle was taken from
\* the allocator and as the last call before returning; the writes received
\* by the backend number the allocate calls made.
C8_OneWritePerAllocate ==
    /\ ctx.writes = n_allocate
    /\ ret.op = "allocate" =>
         /\ ret.handle # NoHandle
         /\ ctx.last_write = [handle |-> ret.handle, data |-> ret.data]
         /\ count_writes(ctx.log) = 1
         /\ Len(ctx.log) >= 2
         /\ ctx.log[Len(ctx.log)] = <<"write", ret.handle, ret.data>>
         /\ ctx.log[Len(ctx.log) - 1] = <<"take", ret.handle, ret.index>>
         /\ ret.handle = allocators[ret.sig].descriptors[ret.index + 1]

\* An allocate that reused the first handle after a reset and wrote buffer 2
\* into it.
C8_Witness ==
    /\ ret.op = "allocate"
    /\ was_reset
    /\ ret.grew = 0
    /\ ret.index = 0
    /\ ret.data = 2
    /\ n_allocate >= 3
    /\ ctx.last_write.handle = ret.handle

\* C9: the Pool holds exactly one allocator per signature ever passed to
\* allocate; the first allocate of a signature creates it empty (it serves
\* index 0 from its first pool), a later allocate of that signature continues
\* the same allocator, and no operation removes an allocator.
C9_OneAllocatorPerSignature ==
    /\ [](DOMAIN allocators = seen)
    /\ [][/\ DOMAIN allocators \subseteq DOMAIN allocators'
          /\ \A s \in Signatures :
               (n_allocate' = n_allocate + 1 /\ ret'.sig = s) =>
                   /\ DOMAIN allocators' = DOMAIN allocators \cup {s}
                   /\ allocators'[s].views = s
                   /\ IF s \in DOMAIN allocators
                      THEN /\ allocators'[s].current_allocations
                                = allocators[s].current_allocations + 1
                           /\ ret'.index = allocators[s].current_allocations
                           /\ SubSeq(allocators'[s].pools, 1, Len(allocators[s].pools))
                                = allocators[s].pools
                      ELSE /\ allocators'[s].current_allocations = 1
                           /\ ret'.index = 0
                           /\ Len(allocators'[s].pools) = 1]_vars

\* Both signatures have an allocator; SigA's was reused after a Pool::reset.
C9_Witness ==
    /\ seen = {SigA, SigB}
    /\ was_reset
    /\ ret.op = "allocate"
    /\ ret.sig = SigA
    /\ ret.index = 1
    /\ Len(allocators[SigA].pools) = 1

\* C10: after Pool::reset() returns every allocator of the Pool has
\* current_allocations = 0, and the reset changed no allocator's pools or
\* descriptors and removed or added no allocator.
C10_PoolResetRewindsAll ==
    /\ [](ret.op = "pool_reset" =>
            \A s \in DOMAIN allocators : allocators[s].current_allocations = 0)
    /\ [][ret'.op = "pool_reset" =>
            /\ DOMAIN allocators' = DOMAIN allocators
            /\ \A s \in DOMAIN allocators :
                 /\ allocators'[s].pools = allocators[s].pools
                 /\ allocators'[s].descriptors = allocators[s].descriptors
            /\ ctx'.pools = ctx.pools]_vars

\* Pool::reset() has just rewound a two-pool allocator and a one-pool one.
C10_Witness ==
    /\ ret.op = "pool_reset"
    /\ DOMAIN allocators = {SigA, SigB}
    /\ Len(allocators[SigA].pools) = 2
    /\ Len(allocators[SigB].pools) = 1
    /\ n_allocate >= block_size + 2
    /\ \A s \in DOMAIN allocators : allocators[s].current_allocations = 0

\* =========================================== SpecSizes: from_views

\* The longest view list given to from_views.
MaxViews == 3

ShaderViewSet == {ShaderView(b, ty) : b \in 0..1, ty \in DescriptorType}

ViewLists == UNION {[1..n -> ShaderViewSet] : n \in 0..MaxViews}

\* The reorderings of a list.
Reorderings(views) ==
    LET n == Len(views)
        perms == {p \in [1..n -> 1..n] : \A i, j \in 1..n : p[i] = p[j] => i = j}
    IN  {[i \in 1..n |-> views[p[i]]] : p \in perms}

InitSizes ==
    /\ InitCommon
    /\ lpa = LinearPoolAllocator_new(SigNone)

\* The caller holds a list of views and a reordering of it.
ChooseViews ==
    /\ sz_in = <<>>
    /\ \E views \in ViewLists : \E other \in Reorderings(views) :
          sz_in' = <<views, other>>
    /\ sz_out' = <<>>
    /\ UNCHANGED <<alloc_vars, pool_hist_vars, frames_vars, negotiate_vars,
                   swap_vars, present_vars>>

FromViews ==
    /\ sz_in # <<>>
    /\ sz_out = <<>>
    /\ sz_out' = <<from_views(sz_in[1]), from_views(sz_in[2])>>
    /\ UNCHANGED <<sz_in, alloc_vars, pool_hist_vars, frames_vars, negotiate_vars,
                   swap_vars, present_vars>>

NextSizes == ChooseViews \/ FromViews

SpecSizes == InitSizes /\ [][NextSizes]_vars

\* The number of views of type ty in a list.
CountOf(views, ty) == Cardinality({i \in DOMAIN views : views[i].ty = ty})

\* C15: from_views is total, its result does not depend on the order of the
\* bindings: buffer is the number of Uniform views, storage the number of
\* Storage views, images is 0, and the empty list yields all-zero sizes.
C15_SizesCountViews ==
    sz_out # <<>> =>
        /\ sz_out[1] = sz_out[2]
        /\ sz_out[1].buffer = CountOf(sz_in[1], Uniform)
        /\ sz_out[1].storage = CountOf(sz_in[1], Storage)
        /\ sz_out[1].images = 0
        /\ sz_in[1] = <<>> => sz_out[1] = [buffer |-> 0, storage |-> 0, images |-> 0]

\* Sizes computed for a three-view list and a true reordering of it.
C15_Witness ==
    /\ sz_out # <<>>
    /\ Len(sz_in[1]) = 3
    /\ sz_in[1] # sz_in[2]
    /\ sz_out[1] = [buffer |-> 2, storage |-> 1, images |-> 0]

\* ============================================== more claims under Spec

\* C19: between two consecutive resets of a Pool the handles returned by
\* Pool::allocate are pairwise distinct, within one signature and across
\* signatures (the backend minting distinct handles): as many different handles
\* were returned since the last reset as allocate calls were made, and a call
\* never returns a handle already returned since that reset.
C19_DistinctWithinFrame ==
    /\ Cardinality(frame_handles) = frame_allocs
    /\ ret.op = "allocate" => ret.handle \in frame_handles

\* After a reset the first handle ever minted has been returned again, in a
\* frame that allocated from both signatures.
C19_Witness ==
    /\ was_reset
    /\ ret.op = "allocate"
    /\ ret.handle = 1
    /\ n_allocate > frame_allocs
    /\ frame_allocs >= 3
    /\ \A s \in Signatures :
         s \in DOMAIN allocators /\ allocators[s].current_allocations > 0

\* ================================ SpecFrames: one allocator, many frames

\* create_descriptor() calls made between two resets.
MaxFrame == 101

Max(a, b) == IF a >= b THEN a ELSE b

InitFrames == InitAllocator

FrameCreate ==
    /\ ~panicked
    /\ frame_calls < MaxFrame
    /\ LET r == create_descriptor(lpa, [ctx EXCEPT !.log = <<>>])
       IN  /\ lpa' = r.alloc
           /\ ctx' = r.ctx
           /\ panicked' = r.panic
           /\ ret' = [op |-> "create_descriptor", sig |-> lpa.views, data |-> 0,
                      handle |-> r.handle, index |-> r.index,
                      grew |-> Len(r.ctx.pools) - Len(ctx.pools)]
           /\ high_water' = Max(high_water, r.alloc.current_allocations)
    /\ frame_calls' = frame_calls + 1
    /\ max_frame' = Max(max_frame, frame_calls + 1)
    /\ UNCHANGED <<allocators, n_create, n_allocate, was_reset, reset_pools,
                   issued, seen>>
    /\ UNCHANGED <<pool_hist_vars, other_vars>>

FrameReset ==
    /\ ~panicked
    /\ lpa' = reset(lpa)
    /\ ctx' = [ctx EXCEPT !.log = <<>>]
    /\ ret' = [NoRet EXCEPT !.op = "reset", !.sig = lpa.views]
    /\ was_reset' = TRUE
    /\ reset_pools' = Len(lpa.pools)
    /\ frame_calls' = 0
    /\ UNCHANGED <<allocators, panicked, n_create, n_allocate, issued, seen>>
    /\ UNCHANGED <<pool_hist_vars, frames_vars, other_vars>>

NextFrames == FrameCreate \/ FrameReset

SpecFrames == InitFrames /\ [][NextFrames]_vars

\* C20: pools.len() = ceil(H / block_size), H the largest value
\* current_allocations has reached; pools.len() and descriptors.len() never
\* decrease and cached handles never change; with at most M allocations in
\* every frame the pool count stays within ceil(M / block_size).
C20_PoolsFollowHighWater ==
    /\ [](/\ Len(lpa.pools) = Ceil(high_water, block_size)
          /\ Len(lpa.pools) <= Ceil(max_frame, block_size)
          /\ lpa.current_allocations <= high_water)
    /\ [][/\ Len(lpa'.pools) >= Len(lpa.pools)
          /\ SubSeq(lpa'.pools, 1, Len(lpa.pools)) = lpa.pools
          /\ Len(lpa'.descriptors) >= Len(lpa.descriptors)
          /\ SubSeq(lpa'.descriptors, 1, Len(lpa.descriptors)) = lpa.descriptors]_vars

\* A later, shorter frame runs on the three pools an earlier frame needed.
C20_Witness ==
    /\ was_reset
    /\ ret.op = "create_descriptor"
    /\ high_water = 2 * block_size + 1
    /\ Len(lpa.pools) = 3
    /\ lpa.current_allocations = block_size + 1

\* ================================= SpecNegotiate: create_swapchain's choices

\* The largest min_image_count a surface reports.
MaxMinImages == 3

\* The longest list of present modes a surface reports.
MaxModes == 2

\* std::u32::MAX (0xFFFFFFFF), the width of an undefined current_extent,
\* written as the 32-bit two's-complement reading of that bit pattern: no
\* arithmetic is done on it, it is only compared.
U32_MAX == -1

UNDEFINED == "UNDEFINED"
B8G8R8_UNORM == "B8G8R8_UNORM"
R8G8B8A8_SRGB == "R8G8B8A8_SRGB"

ColorSpaces == {"SRGB_NONLINEAR", "EXTENDED_SRGB_LINEAR"}

MAILBOX == "MAILBOX"
FIFO == "FIFO"
PresentModes == {"IMMEDIATE", MAILBOX, FIFO, "FIFO_RELAXED"}

IDENTITY == "IDENTITY"
ROTATE_90 == "ROTATE_90"

\* Context.surface_resolution, the resolution the window was created with.
CtxSurfaceResolution == [width |-> 800, height |-> 600]

SurfaceFormat(format, color_space) == [format |-> format, color_space |-> color_space]

\* What get_physical_device_surface_formats_khr may return: nothing, one
\* format (UNDEFINED is only ever reported alone), or two defined formats.
DefinedFormats ==
    {SurfaceFormat(f, cs) : f \in {B8G8R8_UNORM, R8G8B8A8_SRGB}, cs \in ColorSpaces}

FormatLists ==
    {<<>>}
    \cup {<<SurfaceFormat(UNDEFINED, cs)>> : cs \in ColorSpaces}
    \cup {<<a>> : a \in DefinedFormats}
    \cup {<<p[1], p[2]>> : p \in {q \in DefinedFormats \X DefinedFormats : q[1] # q[2]}}

\* What get_physical_device_surface_capabilities_khr may return:
\* max_image_count is 0 (no limit) or at least min_image_count.
Capabilities ==
    {[min_image_count |-> mn, max_image_count |-> mx, current_extent |-> ext,
      supported_transforms |-> sup, current_transform |-> cur] :
        mn \in 1..MaxMinImages, mx \in 0..(MaxMinImages + 2),
        ext \in {[width |-> U32_MAX, height |-> U32_MAX],
                 [width |-> 1024, height |-> 768]},
        sup \in {{IDENTITY}, {ROTATE_90}, {IDENTITY, ROTATE_90}},
        cur \in {IDENTITY, ROTATE_90}}

ValidCapabilities ==
    {c \in Capabilities :
        /\ c.max_image_count = 0 \/ c.max_image_count >= c.min_image_count
        /\ c.current_transform \in c.supported_transforms}

ModeLists == UNION {[1..n -> PresentModes] : n \in 0..MaxModes}

Surfaces == [formats : FormatLists, caps : ValidCapabilities, modes : ModeLists]

\* Mutant: the fallback format comes with the default color space.
select_surface_format_default_space(surface_formats) ==
    IF surface_formats = <<>> THEN <<>>
    ELSE LET sfmt == surface_formats[1]
         IN  IF sfmt.format = UNDEFINED
             THEN <<SurfaceFormat(B8G8R8_UNORM, "SRGB_NONLINEAR")>>
             ELSE <<sfmt>>

\* surface_formats.iter().map(..).nth(0).expect(..): the first format, with
\* UNDEFINED replaced; <<>> (None, on which expect panics) when the list is
\* empty, else the one format.
select_surface_format(surface_formats) ==
    IF surface_formats = <<>> THEN <<>>
    ELSE LET sfmt == surface_formats[1]
         IN  IF sfmt.format = UNDEFINED
             THEN <<SurfaceFormat(B8G8R8_UNORM, sfmt.color_space)>>
             ELSE <<sfmt>>

\* Mutant: the count is clamped without asking whether there is a maximum.
desired_image_count_always_clamp(caps) ==
    LET desired == caps.min_image_count + 1
    IN  IF desired > caps.max_image_count
        THEN caps.max_image_count
        ELSE desired

desired_image_count(caps) ==
    LET desired == caps.min_image_count + 1
    IN  IF caps.max_image_count > 0 /\ desired > caps.max_image_count
        THEN caps.max_image_count
        ELSE desired

select_surface_resolution(caps, ctx_resolution) ==
    IF caps.current_extent.width = U32_MAX
    THEN ctx_resolution
    ELSE caps.current_extent

select_pre_transform(caps) ==
    IF IDENTITY \in caps.supported_transforms
    THEN IDENTITY
    ELSE caps.current_transform

\* present_modes.iter().cloned().find(|&mode| mode == MAILBOX).unwrap_or(FIFO)
RECURSIVE find_mailbox(_)
find_mailbox(present_modes) ==
    IF present_modes = <<>> THEN "None"
    ELSE IF Head(present_modes) = MAILBOX THEN Head(present_modes)
    ELSE find_mailbox(Tail(present_modes))

\* Mutant: only the first reported mode is looked at.
select_present_mode_first(present_modes) ==
    IF present_modes # <<>> /\ Head(present_modes) = MAILBOX THEN MAILBOX ELSE FIFO

select_present_mode(present_modes) ==
    LET found == find_mailbox(present_modes)
    IN  IF found = "None" THEN FIFO ELSE found

\* The vk::SwapchainCreateInfoKHR create_swapchain builds: <<info>>, or <<>>
\* when expect("Unable to find suitable surface format.") panicked.
swapchain_create_info(s, old_swapchain) ==
    LET found == select_surface_format(s.formats)
    IN  IF found = <<>> THEN <<>>
        ELSE LET surface_format == found[1]
             IN  <<[min_image_count |-> desired_image_count(s.caps),
                    image_color_space |-> surface_format.color_space,
                    image_format |-> surface_format.format,
                    image_extent |->
                        select_surface_resolution(s.caps, CtxSurfaceResolution),
                    pre_transform |-> select_pre_transform(s.caps),
                    present_mode |-> select_present_mode(s.modes),
                    old_swapchain |-> old_swapchain]>>

InitNegotiate ==
    /\ InitCommon
    /\ lpa = LinearPoolAllocator_new(SigNone)

QuerySurface ==
    /\ surface = <<>>
    /\ \E s \in Surfaces : surface' = <<s>>
    /\ info' = <<>>
    /\ UNCHANGED <<alloc_vars, pool_hist_vars, frames_vars, sizes_vars,
                   swap_vars, present_vars>>

\* info is <<>> before the call, <<"built">> after a panic, and
\* <<"built", create info>> otherwise.
BuildCreateInfo ==
    /\ surface # <<>>
    /\ info = <<>>
    /\ info' = <<"built">> \o swapchain_create_info(surface[1], 0)
    /\ UNCHANGED <<surface, alloc_vars, pool_hist_vars, frames_vars, sizes_vars,
                   swap_vars, present_vars>>

NextNegotiate == QuerySurface \/ BuildCreateInfo

SpecNegotiate == InitNegotiate /\ [][NextNegotiate]_vars

\* create_swapchain got as far as the create info.
Built == Len(info) = 2

Reported == surface[1]

CreateInfo == info[2]

Range(seq) == {seq[i] : i \in DOMAIN seq}

\* C13: creation selects MAILBOX whenever MAILBOX is among the reported
\* present modes, at any position, and FIFO otherwise.
C13_MailboxElseFifo ==
    Built =>
        /\ MAILBOX \in Range(Reported.modes) => CreateInfo.present_mode = MAILBOX
        /\ MAILBOX \notin Range(Reported.modes) => CreateInfo.present_mode = FIFO

\* MAILBOX is reported second, after FIFO.
C13_Witness ==
    /\ Built
    /\ Reported.modes = <<FIFO, MAILBOX>>
    /\ CreateInfo.present_mode = MAILBOX

\* C14: an UNDEFINED surface format is replaced by B8G8R8_UNORM with the
\* reported color space; a defined first format is used unchanged.
C14_FormatFallback ==
    Built =>
        LET reported == Reported.formats[1]
        IN  /\ CreateInfo.image_color_space = reported.color_space
            /\ reported.format = UNDEFINED => CreateInfo.image_format = B8G8R8_UNORM
            /\ reported.format # UNDEFINED => CreateInfo.image_format = reported.format

\* An undefined format reported with the extended color space.
C14_Witness ==
    /\ Built
    /\ Reported.formats = <<SurfaceFormat(UNDEFINED, "EXTENDED_SRGB_LINEAR")>>
    /\ CreateInfo.image_format = B8G8R8_UNORM
    /\ CreateInfo.image_color_space = "EXTENDED_SRGB_LINEAR"

\* C16: the requested image count is min_image_count + 1, replaced by a
\* nonzero max_image_count that it exceeds: it never exceeds a nonzero
\* max_image_count and is min_image_count + 1 when max_image_count is 0.
C16_ImageCountClamped ==
    Built =>
        LET mn == Reported.caps.min_image_count
            mx == Reported.caps.max_image_count
        IN  /\ mx > 0 => CreateInfo.min_image_count <= mx
            /\ mx = 0 => CreateInfo.min_image_count = mn + 1
            /\ (mx > 0 /\ mn + 1 > mx) => CreateInfo.min_image_count = mx
            /\ mn + 1 <= mx => CreateInfo.min_image_count = mn + 1

\* min_image_count = max_image_count = 2: the request is clamped to 2.
C16_Witness ==
    /\ Built
    /\ Reported.caps.min_image_count = 2
    /\ Reported.caps.max_image_count = 2
    /\ CreateInfo.min_image_count = 2

\* ================================== SpecSwapchain: the life of a swapchain

\* Presentation objects created during one run (the first and the recreated).
MaxSwapchains == 3

\* vk::SwapchainKHR::null()
NullSwapchain == 0

\* The driver: `created` presentation objects exist or existed, numbered from
\* 1; per object the destroy calls received, the old_swapchain it was created
\* with and whether that one was still alive then; the calls of the current
\* operation, in order.
NewDriver ==
    [created |-> 0, destroyed |-> <<>>, hint |-> <<>>, hint_alive |-> <<>>,
     log |-> <<>>]

\* swapchain_loader.create_swapchain_khr(&swapchain_create_info, None)
vk_create_swapchain(v, create_info) ==
    LET old == create_info.old_swapchain
    IN  [v EXCEPT !.created = @ + 1,
                  !.destroyed = Append(@, 0),
                  !.hint = Append(@, old),
                  !.hint_alive = Append(@, old # NullSwapchain /\ v.destroyed[old] = 0),
                  !.log = Append(@, <<"create_swapchain_khr", v.created + 1, old>>)]

\* swapchain_loader.destroy_swapchain_khr(self.swapchain, None)
vk_destroy_swapchain(v, id) ==
    [v EXCEPT !.destroyed[id] = @ + 1,
              !.log = Append(@, <<"destroy_swapchain_khr", id, 0>>)]

\* What the driver answers during one create_swapchain call: the call that
\* fails, if any, and how many images beyond the requested minimum it made.
DriverOutcomes ==
    [fail : {"none", "create_swapchain_khr", "get_swapchain_images_khr",
             "create_image_view"},
     extra : {0, 1}]

\* get_swapchain_images: one Image (image, view, desc) per image of the
\* swapchain; both driver calls are unwrapped.
get_swapchain_images(v, id, resolution, count, outcome) ==
    LET v1 == [v EXCEPT !.log = Append(@, <<"get_swapchain_images_khr", id, 0>>)]
        v2 == [v1 EXCEPT !.log = Append(@, <<"create_image_view", id, count>>)]
    IN  IF outcome.fail = "get_swapchain_images_khr"
        THEN [vk |-> v1, images |-> <<>>, panic |-> TRUE]
        ELSE IF outcome.fail = "create_image_view"
        THEN [vk |-> v2, images |-> <<>>, panic |-> TRUE]
        ELSE [vk |-> v2,
              images |-> [k \in 1..count |->
                             [image |-> <<id, k>>, image_view |-> <<id, k>>,
                              desc |-> [resolution |-> resolution, layout |-> "Color"]]],
              panic |-> FALSE]

\* create_swapchain(ctx, old_swapchain): <<SwapchainData>>, or a panic that
\* leaves what the driver had already made.
create_swapchain(v, s, old_swapchain, outcome) ==
    LET built == swapchain_create_info(s, old_swapchain)
    IN  IF built = <<>> \/ outcome.fail = "create_swapchain_khr"
        THEN [vk |-> v, data |-> <<>>, panic |-> TRUE]
        ELSE LET v1 == vk_create_swapchain(v, built[1])
                 id == v1.created
                 resolution == [width |-> built[1].image_extent.width,
                                height |-> built[1].image_extent.height]
                 got == get_swapchain_images(v1, id, resolution,
                                             built[1].min_image_count + outcome.extra,
                                             outcome)
             IN  IF got.panic
                 THEN [vk |-> got.vk, data |-> <<>>, panic |-> TRUE]
                 ELSE [vk |-> got.vk,
                       data |-> <<[swapchain |-> id,
                                   present_images |-> got.images,
                                   resolution |-> resolution]>>,
                       panic |-> FALSE]

\* impl Drop for SwapchainData
drop_swapchain_data(v, data) == vk_destroy_swapchain(v, data.swapchain)

\* Mutant: the old SwapchainData is dropped before the new one is created.
recreate_drop_first(v, data, s, outcome) ==
    LET v0 == drop_swapchain_data(v, data)
        r == create_swapchain(v0, s, data.swapchain, outcome)
    IN  [vk |-> r.vk, data |-> r.data, panic |-> r.panic]

\* SwapchainData::recreate: create_swapchain with the old object as hint, then
\* `*self = new_swapchain` drops the old SwapchainData. A panic in
\* create_swapchain unwinds and the owner drops the old SwapchainData.
recreate(v, data, s, outcome) ==
    LET r == create_swapchain(v, s, data.swapchain, outcome)
    IN  IF r.panic
        THEN [vk |-> drop_swapchain_data(r.vk, data), data |-> <<>>, panic |-> TRUE]
        ELSE [vk |-> drop_swapchain_data(r.vk, data), data |-> r.data, panic |-> FALSE]

\* What acquire_next_image_khr may answer.
AcquireCodes ==
    {"SUCCESS", "SUBOPTIMAL_KHR", "ERROR_OUT_OF_DATE_KHR", "ERROR_SURFACE_LOST_KHR",
     "ERROR_DEVICE_LOST", "TIMEOUT", "NOT_READY"}

\* Mutant: SUBOPTIMAL_KHR has no arm of its own.
map_err_no_suboptimal(err) ==
    IF err = "ERROR_OUT_OF_DATE_KHR" THEN "OutOfDate" ELSE "Unknown"

\* The closure given to map_err.
map_err(err) ==
    IF err = "ERROR_OUT_OF_DATE_KHR" THEN "OutOfDate"
    ELSE IF err = "SUBOPTIMAL_KHR" THEN "Suboptimal"
    ELSE "Unknown"

\* SwapchainData::aquire_next_image: the driver's answer is a code and, on
\* SUCCESS, an image index; every other code arrives as an error.
aquire_next_image(code, index) ==
    IF code = "SUCCESS"
    THEN [ok |-> TRUE, index |-> index, err |-> "none"]
    ELSE [ok |-> FALSE, index |-> 0, err |-> map_err(code)]

\* The surfaces a swapchain is created against during its life.
SwapSurfaces ==
    [formats : {<<>>, <<SurfaceFormat(UNDEFINED, "SRGB_NONLINEAR")>>},
     caps : {[min_image_count |-> 2, max_image_count |-> mx, current_extent |-> ext,
              supported_transforms |-> {IDENTITY}, current_transform |-> IDENTITY] :
                 mx \in {0, 2},
                 ext \in {[width |-> U32_MAX, height |-> U32_MAX],
                          [width |-> 1024, height |-> 768]}},
     modes : {<<FIFO>>, <<FIFO, MAILBOX>>}]

NoSwapRet ==
    [op |-> "none", old |-> NullSwapchain, surface |-> <<>>, code |-> "none",
     result |-> [ok |-> FALSE, index |-> 0, err |-> "none"]]

Live == swapchain # <<>>

Data == swapchain[1]

InitSwapchain ==
    /\ InitDescriptorVars
    /\ lpa = LinearPoolAllocator_new(SigNone)
    /\ IdleHist /\ IdleFrames /\ IdleSizes /\ IdleNegotiate /\ IdlePresent
    /\ vk = NewDriver
    /\ swapchain = <<>>
    /\ sw_ret = NoSwapRet

swap_others == <<alloc_vars, pool_hist_vars, frames_vars, sizes_vars,
                 negotiate_vars, present_vars>>

\* CreateSwapchain::new for Context
SwapchainNew ==
    /\ sw_ret.op = "none"
    /\ \E s \in SwapSurfaces, outcome \in DriverOutcomes :
         LET r == create_swapchain(vk, s, NullSwapchain, outcome)
         IN  /\ vk' = r.vk
             /\ swapchain' = r.data
             /\ sw_ret' = [NoSwapRet EXCEPT !.op = IF r.panic THEN "panic" ELSE "new",
                                            !.surface = <<s>>]
    /\ UNCHANGED swap_others

SwapchainRecreate ==
    /\ Live
    /\ vk.created < MaxSwapchains
    /\ \E s \in SwapSurfaces, outcome \in DriverOutcomes :
         LET r == recreate([vk EXCEPT !.log = <<>>], Data, s, outcome)
         IN  /\ vk' = r.vk
             /\ swapchain' = r.data
             /\ sw_ret' = [NoSwapRet EXCEPT
                             !.op = IF r.panic THEN "panic" ELSE "recreate",
                             !.old = Data.swapchain,
                             !.surface = <<s>>]
    /\ UNCHANGED swap_others

SwapchainAcquire ==
    /\ Live
    /\ \E code \in AcquireCodes, index \in 0..(Len(Data.present_images) - 1) :
         /\ code # "SUCCESS" => index = 0
         /\ sw_ret' = [NoSwapRet EXCEPT !.op = "acquire", !.code = code,
                                        !.old = index,
                                        !.result = aquire_next_image(code, index)]
    /\ vk' = [vk EXCEPT !.log = <<<<"acquire_next_image_khr", Data.swapchain, 0>>>>]
    /\ UNCHANGED swapchain
    /\ UNCHANGED swap_others

\* SwapchainData::present on one thread: queue_present_khr(..).unwrap()
\* returns, or panics and the owner drops the SwapchainData while unwinding.
SwapchainPresent ==
    /\ Live
    /\ \E index \in 0..(Len(Data.present_images) - 1), ok \in BOOLEAN :
         LET v1 == [vk EXCEPT !.log = <<<<"queue_present_khr", Data.swapchain, index>>>>]
         IN  IF ok
             THEN /\ vk' = v1
                  /\ swapchain' = swapchain
                  /\ sw_ret' = [NoSwapRet EXCEPT !.op = "present", !.old = index]
             ELSE /\ vk' = drop_swapchain_data(v1, Data)
                  /\ swapchain' = <<>>
                  /\ sw_ret' = [NoSwapRet EXCEPT !.op = "panic", !.old = index]
    /\ UNCHANGED swap_others

\* The owner lets go of the swapchain.
SwapchainDrop ==
    /\ Live
    /\ vk' = drop_swapchain_data([vk EXCEPT !.log = <<>>], Data)
    /\ swapchain' = <<>>
    /\ sw_ret' = [NoSwapRet EXCEPT !.op = "drop", !.old = Data.swapchain]
    /\ UNCHANGED swap_others

NextSwapchain ==
    \/ SwapchainNew
    \/ SwapchainRecreate
    \/ SwapchainAcquire
    \/ SwapchainPresent
    \/ SwapchainDrop

SpecSwapchain == InitSwapchain /\ [][NextSwapchain]_vars

SwapchainIds == 1..vk.created

\* C11: every presentation object that was created is destroyed exactly once:
\* never twice, never while a live SwapchainData holds it, every replaced one
\* has been destroyed, and none is left once the SwapchainData is gone.
C11_DestroyedExactlyOnce ==
    /\ \A id \in SwapchainIds : vk.destroyed[id] <= 1
    /\ Live => vk.destroyed[Data.swapchain] = 0
    /\ Live => \A id \in SwapchainIds \ {Data.swapchain} : vk.destroyed[id] = 1
    /\ (~Live /\ sw_ret.op # "none") => \A id \in SwapchainIds : vk.destroyed[id] = 1

\* The same bookkeeping on the runs in which no driver call has failed.
C11_NoLeakWithoutPanic ==
    sw_ret.op # "panic" => C11_DestroyedExactlyOnce

\* C12: aquire_next_image answers Ok(index) on success, OutOfDate on
\* ERROR_OUT_OF_DATE_KHR, Suboptimal on SUBOPTIMAL_KHR and Unknown on every
\* other code, and the call changes neither the presentation object, the
\* images, the resolution nor what the driver has created or destroyed.
C12_AcquireMapsResponse ==
    /\ [](sw_ret.op = "acquire" =>
            /\ sw_ret.code = "SUCCESS" =>
                 sw_ret.result = [ok |-> TRUE, index |-> sw_ret.old, err |-> "none"]
            /\ sw_ret.code = "ERROR_OUT_OF_DATE_KHR" =>
                 ~sw_ret.result.ok /\ sw_ret.result.err = "OutOfDate"
            /\ sw_ret.code = "SUBOPTIMAL_KHR" =>
                 ~sw_ret.result.ok /\ sw_ret.result.err = "Suboptimal"
            /\ sw_ret.code \notin {"SUCCESS", "ERROR_OUT_OF_DATE_KHR", "SUBOPTIMAL_KHR"} =>
                 ~sw_ret.result.ok /\ sw_ret.result.err = "Unknown")
    /\ [][sw_ret'.op = "acquire" =>
            /\ swapchain' = swapchain
            /\ vk'.created = vk.created
            /\ vk'.destroyed = vk.destroyed]_vars

C12_Witness ==
    /\ Live
    /\ sw_ret.op = "acquire"
    /\ sw_ret.code = "SUBOPTIMAL_KHR"
    /\ sw_ret.result.err = "Suboptimal"
    /\ vk.created = 2

\* C17: a recreate() that returns has created the new presentation object
\* first, with the then still existing old one as old_swapchain, and destroyed
\* the old one last; the SwapchainData holds the new object, and its images
\* and resolution are those made for the new object.
C17_RecreateReplacesWhole ==
    sw_ret.op = "recreate" =>
        LET new == Data.swapchain
            old == sw_ret.old
            ext == sw_ret.surface[1].caps.current_extent
            negotiated == IF ext.width = U32_MAX THEN CtxSurfaceResolution ELSE ext
        IN  /\ Live
            /\ new = vk.created /\ new # old
            /\ vk.hint[new] = old /\ vk.hint_alive[new]
            /\ vk.log[1] = <<"create_swapchain_khr", new, old>>
            /\ vk.log[Len(vk.log)] = <<"destroy_swapchain_khr", old, 0>>
            /\ \A k \in 1..(Len(vk.log) - 1) : vk.log[k][1] # "destroy_swapchain_khr"
            /\ vk.destroyed[old] = 1 /\ vk.destroyed[new] = 0
            /\ Data.resolution = negotiated
            /\ Len(Data.present_images) >= sw_ret.surface[1].caps.min_image_count
            /\ \A k \in 1..Len(Data.present_images) :
                 /\ Data.present_images[k].image[1] = new
                 /\ Data.present_images[k].desc.resolution = negotiated

C17_Witness ==
    /\ sw_ret.op = "recreate"
    /\ Data.swapchain = 3
    /\ Data.resolution = [width |-> 1024, height |-> 768]
    /\ Len(Data.present_images) = 3

\* ============================ SpecPresent: present() from several threads

\* present() calls begun during one run.
MaxPresents == 4

\* The threads, each presenting its own swapchain of the one shared context.
Threads == {1, 2, 3}

Unlocked == 0

\* present_queue.inner.lock(): returns once no other guard exists.
mutex_lock(holder, t) == t

\* Dropping the guard.
mutex_unlock(holder, t) == IF holder = t THEN Unlocked ELSE holder

\* Mutant: the guard is dropped as soon as the queue handle is copied out.
guard_during_submission_released(holder, t) == mutex_unlock(holder, t)

\* queue_present_khr(*self.context.present_queue.inner.lock(), &present_info)
\* .unwrap(); the guard is a temporary of this statement, so it is alive while
\* queue_present_khr runs and dropped when the statement ends or unwinds.
guard_during_submission(holder, t) == holder

InitPresent ==
    /\ InitDescriptorVars
    /\ lpa = LinearPoolAllocator_new(SigNone)
    /\ IdleHist /\ IdleFrames /\ IdleSizes /\ IdleNegotiate /\ IdleSwap
    /\ pc = [t \in Threads |-> "idle"]
    /\ queue_lock = Unlocked
    /\ in_flight = {}
    /\ n_present = 0

present_others == <<alloc_vars, pool_hist_vars, frames_vars, sizes_vars,
                    negotiate_vars, swap_vars>>

\* A thread enters present() and builds present_info.
PresentCall(t) ==
    /\ pc[t] = "idle"
    /\ n_present < MaxPresents
    /\ pc' = [pc EXCEPT ![t] = "waiting"]
    /\ n_present' = n_present + 1
    /\ UNCHANGED <<queue_lock, in_flight, present_others>>

\* The argument *..lock() is evaluated: the thread gets the guard.
PresentLock(t) ==
    /\ pc[t] = "waiting"
    /\ queue_lock = Unlocked
    /\ queue_lock' = mutex_lock(queue_lock, t)
    /\ pc' = [pc EXCEPT ![t] = "locked"]
    /\ UNCHANGED <<in_flight, n_present, present_others>>

\* queue_present_khr begins on the shared queue.
PresentSubmit(t) ==
    /\ pc[t] = "locked"
    /\ queue_lock' = guard_during_submission(queue_lock, t)
    /\ in_flight' = in_flight \cup {t}
    /\ pc' = [pc EXCEPT ![t] = "submitting"]
    /\ UNCHANGED <<n_present, present_others>>

\* queue_present_khr answers: Ok, or an error on which unwrap panics.
PresentAnswer(t) ==
    /\ pc[t] = "submitting"
    /\ in_flight' = in_flight \ {t}
    /\ \E ok \in BOOLEAN :
         pc' = [pc EXCEPT ![t] = IF ok THEN "returning" ELSE "unwinding"]
    /\ UNCHANGED <<queue_lock, n_present, present_others>>

\* The statement ends, or the panic unwinds through it: the guard is dropped.
\* A thread that panicked presents no more.
PresentEnd(t) ==
    /\ pc[t] \in {"returning", "unwinding"}
    /\ queue_lock' = mutex_unlock(queue_lock, t)
    /\ pc' = [pc EXCEPT ![t] = IF pc[t] = "returning" THEN "idle" ELSE "dead"]
    /\ UNCHANGED <<in_flight, n_present, present_others>>

NextPresent ==
    \E t \in Threads :
        \/ PresentCall(t)
        \/ PresentLock(t)
        \/ PresentSubmit(t)
        \/ PresentAnswer(t)
        \/ PresentEnd(t)

SpecPresent == InitPresent /\ [][NextPresent]_vars

\* C18: with several threads in present(), at most one submission to the
\* shared queue is in progress, the submitting thread holds the lock for the
\* whole submission, and a thread that is out of present() holds no lock.
C18_OneSubmissionAtATime ==
    /\ Cardinality(in_flight) <= 1
    /\ \A t \in in_flight : queue_lock = t
    /\ \A t \in Threads : pc[t] \in {"idle", "dead", "waiting"} => queue_lock # t
    /\ (\A t \in Threads : pc[t] \in {"idle", "dead"}) => queue_lock = Unlocked

C18_Witness ==
    /\ in_flight = {2}
    /\ pc[1] = "waiting"
    /\ pc[3] = "waiting"
    /\ n_present = MaxPresents

====
